---- MODULE Spec2Model ----
(***************************************************************************)
(* Model of the /quiz request handler of main.py: one request travelling   *)
(* through quiz_endpoint, render_page_and_collect (with download_file),    *)
(* call_gemini_for_solution (with _extract_text_from_gemini_response and   *)
(* the JSON span heuristic) and the submission POST.                       *)
(*                                                                         *)
(* Python None is the string "None"; a missing dict key is "ABSENT" in a   *)
(* payload dict and "None" where the code reads it with dict.get.          *)
(***************************************************************************)
EXTENDS Integers, Sequences, FiniteSets, TLC

VARIABLES
    pc,              \* position of the request in quiz_endpoint / its callees
    QUIZ_SECRET,     \* module global read from the environment
    request,         \* what request.get_json(force=True) does / returns
    response,        \* the (body, status) pair returned to the caller
    crashed,         \* an exception left quiz_endpoint unhandled
    pw,              \* sync_playwright() scope: "none", "running", "stopped"
    browser,         \* chromium browser: "none", "open", "closed"
    context,         \* browser context: "none", "open", "closed"
    close_calls,     \* explicit context.close() / browser.close() calls made
    nav,             \* outcome of the primary page.goto
    fallback_nav,    \* outcome of the fallback page.goto ("none" if not run)
    fallback_attempts,
    raised_at,       \* stage whose exception left render_page_and_collect
    anchors,         \* page.query_selector_all("a"), in document order
    idx,             \* position of the for-loop over anchors
    downloads,       \* download_file calls made by the loop, in order
    collected_files, \* collected_files list
    page_captured,   \* html / visible_text were captured
    gemini_calls,    \* model.generate_content calls made
    backend,         \* outcome of the generate_content call
    text_out,        \* what _extract_text_from_gemini_response produced
    solution,        \* value returned by call_gemini_for_solution
    payload,         \* local payload of quiz_endpoint before the POST
    submit_url,      \* local submit_url of quiz_endpoint
    posts,           \* requests.post calls made, in order
    dl_call          \* a direct download_file(url, max_bytes) call and its result

vars == <<pc, QUIZ_SECRET, request, response, crashed, pw, browser, context,
          close_calls, nav, fallback_nav, fallback_attempts, raised_at,
          anchors, idx, downloads, collected_files, page_captured,
          gemini_calls, backend, text_out, solution, payload, submit_url,
          posts, dl_call>>

----------------------------------------------------------------------------
(* Bounds *)

MaxAnchors == 3     \* longest list of <a> elements on the page
MaxText == 3        \* longest raw model reply, in tokens
MaxBytes == 2       \* stand-in for download_file's max_bytes default

None == "None"
Absent == "ABSENT"

\* s is truthy in the sense of Python's `if s:` for str-or-None values
Truthy(s) == s # None /\ s # ""

----------------------------------------------------------------------------
(* download_file *)

\* What the remote server answers to the GET: status line, content-length
\* header ("absent", "bad" = not an integer, "num"), the body it really sends.
Statuses == {200, 304, 404, 500}
Sizes == 0..(MaxBytes + 2)
ContentTypes == {"text/plain", ""}

HttpResponses ==
    [status : Statuses, clk : {"num"}, cl : Sizes, body : Sizes,
     ctype : ContentTypes]
    \cup [status : Statuses, clk : {"absent", "bad"}, cl : {0}, body : Sizes,
          ctype : ContentTypes]

\* requests.Response.raise_for_status: raises for 4xx and 5xx
raise_for_status_raises(resp) == resp.status >= 400 /\ resp.status < 600

DlFail(err, read) ==
    [ok |-> FALSE, err |-> err, data |-> 0, ctype |-> "", body_read |-> read]

\* faulty variant: trusts the content-length header, no check of the bytes read
download_file_trust_header(resp, max_bytes) ==
    IF raise_for_status_raises(resp) THEN DlFail("HTTPError", FALSE)
    ELSE IF resp.clk = "bad" THEN DlFail("ValueError", FALSE)
    ELSE LET length == IF resp.clk = "num" THEN resp.cl ELSE 0 IN
         IF length # 0 /\ length > max_bytes
         THEN DlFail("Remote file too large", FALSE)
         ELSE [ok |-> TRUE, err |-> "", data |-> resp.body,
               ctype |-> resp.ctype, body_read |-> TRUE]

download_file(resp, max_bytes) ==
    IF raise_for_status_raises(resp) THEN DlFail("HTTPError", FALSE)
    ELSE IF resp.clk = "bad" THEN DlFail("ValueError", FALSE)
    ELSE LET length == IF resp.clk = "num" THEN resp.cl ELSE 0 IN
         IF length # 0 /\ length > max_bytes
         THEN DlFail("Remote file too large", FALSE)
         ELSE LET data == resp.body IN
              IF data > max_bytes
              THEN DlFail("Downloaded file exceeds limit", TRUE)
              ELSE [ok |-> TRUE, err |-> "", data |-> data,
                    ctype |-> resp.ctype, body_read |-> TRUE]

NoCall ==
    [called |-> FALSE, max_bytes |-> 0,
     resp |-> [status |-> 200, clk |-> "absent", cl |-> 0, body |-> 0, ctype |-> ""],
     result |-> DlFail("", FALSE)]

----------------------------------------------------------------------------
(* _extract_text_from_gemini_response and the JSON span heuristic *)

\* Raw text is a sequence of tokens: "{" and "}" are the brace characters,
\* "m" a well-formed member list ("answer": 42, ...), "1" a JSON number,
\* "w" prose that is not JSON.
Tokens == {"{", "}", "m", "1", "w"}

RECURSIVE SeqsUpTo(_, _)
SeqsUpTo(S, n) ==
    IF n = 0 THEN {<<>>}
    ELSE LET shorter == SeqsUpTo(S, n - 1) IN
         shorter \cup {Append(s, x) : s \in {t \in shorter : Len(t) = n - 1}, x \in S}

Texts == SeqsUpTo(Tokens, MaxText)

Str(v) == [t |-> "str", v |-> v]
NonStr == [t |-> "nonstr", v |-> <<>>]
NoText == [t |-> "none", v |-> <<>>]
RaisedText == [t |-> "raised", v |-> <<>>]

\* str.find / str.rfind, 0-based, -1 when not found
find(s, ch) ==
    IF \E i \in 1..Len(s) : s[i] = ch
    THEN (CHOOSE i \in 1..Len(s) : s[i] = ch /\ \A j \in 1..(i - 1) : s[j] # ch) - 1
    ELSE -1

rfind(s, ch) ==
    IF \E i \in 1..Len(s) : s[i] = ch
    THEN (CHOOSE i \in 1..Len(s) : s[i] = ch /\ \A j \in (i + 1)..Len(s) : s[j] # ch) - 1
    ELSE -1

\* text_out[start : end + 1] if start != -1 and end != -1 and end > start
\* else text_out
json_text(s) ==
    LET start == find(s, "{")
        end == rfind(s, "}")
    IN IF start # -1 /\ end # -1 /\ end > start
       THEN SubSeq(s, start + 1, end + 1)
       ELSE s

\* json.loads on the token language: "object" (members to be chosen),
\* "empty_object", "number", or "error" (JSONDecodeError)
json_loads(s) ==
    IF s = <<"{", "m", "}">> THEN "object"
    ELSE IF s = <<"{", "}">> THEN "empty_object"
    ELSE IF s = <<"1">> THEN "number"
    ELSE "error"

\* Shapes of the SDK response object.  text: "absent" (no attribute),
\* "raises" (the property raises), or a Str; output / generations: the
\* attribute's shape, with the text it carries; str: what str(resp) gives.
SampleTexts == {<<"{", "m", "}">>, <<"w">>}
SampleValues == {Str(v) : v \in SampleTexts} \cup {NonStr}

OutputShapes ==
    {[k |-> "none", v |-> NoText]}
    \cup {[k |-> k, v |-> v] : k \in {"list_content", "list_item", "dict_content"},
                               v \in SampleValues}
    \cup {[k |-> "other", v |-> NoText], [k |-> "raises", v |-> NoText]}

GenShapes ==
    {[k |-> "none", v |-> NoText]}
    \cup {[k |-> k, v |-> v] : k \in {"dict_text", "attr_text"}, v \in SampleValues}
    \cup {[k |-> "other", v |-> NoText], [k |-> "raises", v |-> NoText]}

StrShapes == {Str(<<"w">>), Str(<<"1">>), RaisedText}

GeminiResponses ==
    {[text |-> Str(t), output |-> [k |-> "none", v |-> NoText],
      generations |-> [k |-> "none", v |-> NoText], str |-> Str(<<"w">>)] :
        t \in Texts \ {<<>>}}
    \cup [text : {[t |-> "absent", v |-> <<>>], Str(<<>>), RaisedText},
          output : OutputShapes, generations : GenShapes, str : StrShapes]

_extract_text_from_gemini_response(resp) ==
    IF resp.text.t = "raised" THEN RaisedText
    ELSE IF resp.text.t = "str" /\ resp.text.v # <<>> THEN resp.text
    ELSE IF resp.output.k \in {"list_content", "list_item", "dict_content"}
         THEN resp.output.v
    ELSE IF resp.generations.k \in {"dict_text", "attr_text"}
         THEN resp.generations.v
    ELSE IF resp.str.t = "raised" THEN Str(<<>>)
    ELSE resp.str

----------------------------------------------------------------------------
(* Instructions: the JSON values the model reply can decode to *)

Emails == {None, "a@b.com"}
Secrets == {None, "s", "wrong"}
Urls == {None, "http://quiz"}

EmptyDict ==
    [email |-> Absent, secret |-> Absent, answer |-> Absent,
     attachment_base64 |-> Absent, extra |-> Absent]

NullPayload == [t |-> "null", d |-> EmptyDict]
OtherPayload == [t |-> "other", d |-> EmptyDict]      \* a string, list, number
DictPayload(d) == [t |-> "dict", d |-> d]

ModelPayloads ==
    {NullPayload, OtherPayload, DictPayload(EmptyDict),
     DictPayload([EmptyDict EXCEPT !.answer = "blue"]),
     DictPayload([EmptyDict EXCEPT !.email = "m@evil", !.secret = "guess",
                                   !.answer = "blue", !.extra = "x"])}

Answers == {None, "", "blue"}
SubmitUrls == {None, "", "https://x/test"}
Attachments == {None, "", "QUJD"}

Instructions ==
    [t : {"dict"}, answer : Answers, submit_url : SubmitUrls,
     payload : ModelPayloads, attachment_base64 : Attachments,
     reason : {None}, model_exception : {None}]

EmptyInstruction ==
    [t |-> "dict", answer |-> None, submit_url |-> None, payload |-> NullPayload,
     attachment_base64 |-> None, reason |-> None, model_exception |-> None]

\* json.loads gave a value that is not a dict
NonDictSolution == [EmptyInstruction EXCEPT !.t = "other"]
NoSolution == [EmptyInstruction EXCEPT !.t = "none"]

\* the dict built in the except branch of call_gemini_for_solution
Sentinel(detail) ==
    [EmptyInstruction EXCEPT !.reason = "model_error", !.model_exception = detail]

FailureDetails == {"backend_error", "text_error", "AttributeError", "JSONDecodeError"}

\* faulty variant: the decode is outside the try block, its failure is a parse error
\* of its own and not the sentinel
parse_outcome_split(b, resp) ==
    IF b = "raised" THEN [kind |-> "sentinel", detail |-> "backend_error", text |-> NoText]
    ELSE LET t == _extract_text_from_gemini_response(resp) IN
         IF t.t = "raised" THEN [kind |-> "sentinel", detail |-> "text_error", text |-> t]
         ELSE IF t.t = "nonstr" THEN [kind |-> "sentinel", detail |-> "AttributeError", text |-> t]
         ELSE LET d == json_loads(json_text(t.v)) IN
              IF d = "error" THEN [kind |-> "number", detail |-> None, text |-> t]
              ELSE [kind |-> d, detail |-> None, text |-> t]

\* faulty variant: only the backend call is guarded, a failing text probe escapes
parse_outcome_unguarded(b, resp) ==
    IF b = "raised" THEN [kind |-> "sentinel", detail |-> "backend_error", text |-> NoText]
    ELSE LET t == _extract_text_from_gemini_response(resp) IN
         IF t.t = "raised" THEN [kind |-> "propagate", detail |-> "text_error", text |-> t]
         ELSE IF t.t = "nonstr" THEN [kind |-> "propagate", detail |-> "AttributeError", text |-> t]
         ELSE LET d == json_loads(json_text(t.v)) IN
              IF d = "error" THEN [kind |-> "sentinel", detail |-> "JSONDecodeError", text |-> t]
              ELSE [kind |-> d, detail |-> None, text |-> t]

\* The try block of call_gemini_for_solution: b is what generate_content did
\* ("ok" / "raised"), resp the object it returned.
parse_outcome(b, resp) ==
    IF b = "raised" THEN [kind |-> "sentinel", detail |-> "backend_error", text |-> NoText]
    ELSE LET t == _extract_text_from_gemini_response(resp) IN
         IF t.t = "raised" THEN [kind |-> "sentinel", detail |-> "text_error", text |-> t]
         ELSE IF t.t = "nonstr" THEN [kind |-> "sentinel", detail |-> "AttributeError", text |-> t]
         ELSE LET d == json_loads(json_text(t.v)) IN
              IF d = "error" THEN [kind |-> "sentinel", detail |-> "JSONDecodeError", text |-> t]
              ELSE [kind |-> d, detail |-> None, text |-> t]

----------------------------------------------------------------------------
(* quiz_endpoint: request validation and the submit decision *)

Requests ==
    {[k |-> k, email |-> None, secret |-> None, url |-> None] :
        k \in {"invalid", "falsy", "nonobj"}}
    \cup [k : {"obj"}, email : Emails, secret : Secrets, url : Urls]

\* get_json, `if not data`, data.get(...), secret and field checks.
\* "invalid": get_json raises; "falsy": null, {}, [], 0, "";
\* "nonobj": a truthy JSON value without .get (list, string, number).
request_outcome(req, qs) ==
    IF req.k = "invalid" THEN "invalid_json"
    ELSE IF req.k = "falsy" THEN "invalid_json"
    ELSE IF req.k = "nonobj" THEN "crash"
    ELSE IF req.secret # qs THEN "invalid_secret"
    ELSE IF ~Truthy(req.url) \/ ~Truthy(req.email) THEN "missing_fields"
    ELSE "render"

\* faulty variant: setdefault instead of assignment, the model's values survive
force_identity_keep(d, email, secret) ==
    [d EXCEPT !.email = IF d.email = Absent THEN email ELSE d.email,
              !.secret = IF d.secret = Absent THEN secret ELSE d.secret]

\* payload["email"] = email; payload["secret"] = secret
force_identity(d, email, secret) ==
    [d EXCEPT !.email = email, !.secret = secret]

\* faulty variant: a missing submit_url is not checked before posting
submit_decision_no_url_check(sol, email, secret) ==
    IF sol.t # "dict"
    THEN [outcome |-> "model_failed", payload |-> EmptyDict, solution |-> sol]
    ELSE IF sol.payload.t = "dict"
    THEN [outcome |-> "post",
          payload |-> force_identity(sol.payload.d, email, secret),
          solution |-> [sol EXCEPT !.payload.d = force_identity(sol.payload.d, email, secret)]]
    ELSE [outcome |-> "no_payload_from_model", payload |-> EmptyDict, solution |-> sol]

\* Lines 249-264.  A payload dict taken from the solution is the same object
\* as solution["payload"], so the overwrite shows in the solution echoed
\* back; a synthesized payload is a fresh dict.
submit_decision(sol, email, secret) ==
    IF sol.t # "dict"
    THEN [outcome |-> "model_failed", payload |-> EmptyDict, solution |-> sol]
    ELSE LET synth == sol.payload.t = "null" /\ sol.answer # None
                      /\ Truthy(sol.submit_url)
             isdict == synth \/ sol.payload.t = "dict"
             p == IF synth
                  THEN force_identity([EmptyDict EXCEPT !.answer = sol.answer],
                                      email, secret)
                  ELSE force_identity(sol.payload.d, email, secret)
             sol2 == IF sol.payload.t = "dict"
                     THEN [sol EXCEPT !.payload.d = p]
                     ELSE sol
         IN IF ~isdict
            THEN [outcome |-> "no_payload_from_model", payload |-> EmptyDict,
                  solution |-> sol]
            ELSE IF ~Truthy(sol.submit_url)
            THEN [outcome |-> "no_submit_url", payload |-> p, solution |-> sol2]
            ELSE [outcome |-> "post", payload |-> p, solution |-> sol2]

\* attach_b64 = solution.get("attachment_base64"); if attach_b64: payload[...] = it
attach(d, sol) ==
    IF Truthy(sol.attachment_base64)
    THEN [d EXCEPT !.attachment_base64 = sol.attachment_base64]
    ELSE d

Resp(status, error, result, detail, sol) ==
    [status |-> status, error |-> error, result |-> result, detail |-> detail,
     solution |-> sol, submit_status |-> 0, submit_url |-> None]

NoResponse == Resp(0, None, None, None, NoSolution)

----------------------------------------------------------------------------
(* render_page_and_collect *)

\* An <a> element: "nohref" (href missing or empty), "malformed" (reading or
\* resolving the href raises), "other" (path without a recognized extension),
\* "cand" (path ends in one of the recognized extensions, here ext).
Extensions == {"pdf", "csv", "xlsx", "xls", "json", "zip"}
ModelledExtensions == {"pdf", "csv", "zip"}

Links ==
    {[kind |-> k, ext |-> "none"] : k \in {"nohref", "malformed", "other"}}
    \cup {[kind |-> "cand", ext |-> e] : e \in ModelledExtensions}

AnchorLists == SeqsUpTo(Links, MaxAnchors)

\* file_entry built on lines 196-214
file_entry(link, dl) ==
    [filename |-> link.ext, bytes |-> dl.data,
     is_text |-> \/ dl.ctype = "text/plain"
                 \/ link.ext \in {"csv", "json"}
                 \/ link.ext = "pdf"]

\* faulty variant: the scope exit leaves what the block opened as it is
playwright_exit_leak(st) == st

\* Leaving `with sync_playwright() as p:` stops the driver, which takes the
\* browser and its contexts down with it.
playwright_exit(st) == IF st = "open" THEN "closed" ELSE st

\* An exception leaves render_page_and_collect from stage `at`: the with
\* block is unwound, the locals are gone.
RenderRaise(at, b, c, calls) ==
    /\ pc' = "render_raised"
    /\ raised_at' = at
    /\ pw' = IF at = "start" THEN "none" ELSE "stopped"
    /\ browser' = playwright_exit(b)
    /\ context' = playwright_exit(c)
    /\ close_calls' = calls
    /\ anchors' = <<>>
    /\ idx' = 0
    /\ downloads' = <<>>
    /\ collected_files' = <<>>

\* quiz_endpoint up to the call of render_page_and_collect (lines 230-242)
QuizRequest ==
    /\ pc = "recv"
    /\ LET o == request_outcome(request, QUIZ_SECRET) IN
       /\ pc' = IF o = "render" THEN "launch" ELSE "done"
       /\ crashed' = (o = "crash")
       /\ response' =
            CASE o = "invalid_json" -> Resp(400, "invalid_json", None, None, NoSolution)
              [] o = "invalid_secret" -> Resp(403, "invalid_secret", None, None, NoSolution)
              [] o = "missing_fields" -> Resp(400, "missing_fields", None, None, NoSolution)
              [] OTHER -> NoResponse
    /\ UNCHANGED <<dl_call, QUIZ_SECRET, request, pw, browser, context, close_calls, nav,
                   fallback_nav, fallback_attempts, raised_at, anchors, idx,
                   downloads, collected_files, page_captured, gemini_calls,
                   backend, text_out, solution, payload, submit_url, posts>>

\* lines 168-171: enter the scope, launch, new_context, new_page
LaunchBrowser ==
    /\ pc = "launch"
    /\ \E r \in {"ok", "start_fails", "launch_fails", "context_fails", "page_fails"} :
         CASE r = "ok" ->
                /\ pc' = "goto"
                /\ pw' = "running"
                /\ browser' = "open"
                /\ context' = "open"
                /\ UNCHANGED <<raised_at, close_calls, anchors, idx, downloads,
                               collected_files>>
           [] r = "start_fails" -> RenderRaise("start", "none", "none", 0)
           [] r = "launch_fails" -> RenderRaise("launch", "none", "none", 0)
           [] r = "context_fails" -> RenderRaise("launch", "open", "none", 0)
           [] r = "page_fails" -> RenderRaise("launch", "open", "open", 0)
    /\ UNCHANGED <<dl_call, QUIZ_SECRET, request, response, crashed, nav, fallback_nav,
                   fallback_attempts, page_captured, gemini_calls, backend,
                   text_out, solution, payload, submit_url, posts>>

\* lines 172-174: page.goto(url, wait_until="networkidle")
GotoPrimary ==
    /\ pc = "goto"
    /\ \E r \in {"ok", "timeout", "error"} :
         /\ nav' = r
         /\ CASE r = "ok" ->
                   /\ pc' = "capture"
                   /\ UNCHANGED <<pw, browser, context, raised_at, close_calls,
                                  anchors, idx, downloads, collected_files>>
              [] r = "timeout" ->
                   /\ pc' = "fallback"
                   /\ UNCHANGED <<pw, browser, context, raised_at, close_calls,
                                  anchors, idx, downloads, collected_files>>
              [] r = "error" -> RenderRaise("goto", browser, context, 0)
    /\ UNCHANGED <<dl_call, QUIZ_SECRET, request, response, crashed, fallback_nav,
                   fallback_attempts, page_captured, gemini_calls, backend,
                   text_out, solution, payload, submit_url, posts>>

\* faulty variant: the fallback goto is not wrapped in its own try
GotoFallbackRaises ==
    /\ pc = "fallback"
    /\ \E r \in {"ok", "timeout", "error"} :
         /\ fallback_nav' = r
         /\ fallback_attempts' = fallback_attempts + 1
         /\ IF r = "ok"
            THEN /\ pc' = "capture"
                 /\ UNCHANGED <<pw, browser, context, raised_at, close_calls,
                                anchors, idx, downloads, collected_files>>
            ELSE RenderRaise("fallback", browser, context, 0)
    /\ UNCHANGED <<dl_call, QUIZ_SECRET, request, response, crashed, nav,
                   page_captured, gemini_calls, backend, text_out, solution,
                   payload, submit_url, posts>>

\* lines 175-178: page.goto(url, wait_until="load"), any exception logged
GotoFallback ==
    /\ pc = "fallback"
    /\ \E r \in {"ok", "timeout", "error"} :
         /\ fallback_nav' = r
         /\ fallback_attempts' = fallback_attempts + 1
         /\ pc' = "capture"
    /\ UNCHANGED <<dl_call, QUIZ_SECRET, request, response, crashed, pw, browser, context,
                   close_calls, nav, raised_at, anchors, idx, downloads,
                   collected_files, page_captured, gemini_calls, backend,
                   text_out, solution, payload, submit_url, posts>>

\* lines 179-181: page.content(), inner_text, query_selector_all("a")
Capture ==
    /\ pc = "capture"
    /\ \E r \in {"ok", "raises"} :
         CASE r = "ok" ->
                \E as \in AnchorLists :
                  /\ anchors' = as
                  /\ idx' = 1
                  /\ page_captured' = TRUE
                  /\ pc' = IF as = <<>> THEN "close" ELSE "scan"
                  /\ UNCHANGED <<pw, browser, context, raised_at, close_calls,
                                 downloads, collected_files>>
           [] r = "raises" ->
                /\ RenderRaise("capture", browser, context, 0)
                /\ UNCHANGED page_captured
    /\ UNCHANGED <<dl_call, QUIZ_SECRET, request, response, crashed, nav, fallback_nav,
                   fallback_attempts, gemini_calls, backend, text_out, solution,
                   payload, submit_url, posts>>

\* faulty variant: no break after a resource was collected
ScanAnchorNoBreak ==
    /\ pc = "scan"
    /\ idx <= Len(anchors)
    /\ LET a == anchors[idx]
           next == IF idx + 1 > Len(anchors) THEN "close" ELSE "scan"
       IN /\ idx' = idx + 1
          /\ pc' = next
          /\ IF a.kind # "cand"
             THEN UNCHANGED <<downloads, collected_files>>
             ELSE \E resp \in HttpResponses :
                    LET dl == download_file(resp, MaxBytes) IN
                    /\ downloads' = Append(downloads, [i |-> idx, ok |-> dl.ok,
                                                       data |-> dl.data])
                    /\ collected_files' =
                         IF dl.ok THEN Append(collected_files, file_entry(a, dl))
                         ELSE collected_files
    /\ UNCHANGED <<dl_call, QUIZ_SECRET, request, response, crashed, pw, browser,
                   context, close_calls, nav, fallback_nav, fallback_attempts,
                   raised_at, anchors, page_captured, gemini_calls, backend,
                   text_out, solution, payload, submit_url, posts>>

\* lines 182-222: one iteration of the loop over anchors
ScanAnchor ==
    /\ pc = "scan"
    /\ idx <= Len(anchors)
    /\ LET a == anchors[idx]
           next == IF idx + 1 > Len(anchors) THEN "close" ELSE "scan"
       IN IF a.kind # "cand"
          THEN /\ idx' = idx + 1
               /\ pc' = next
               /\ UNCHANGED <<downloads, collected_files>>
          ELSE \E resp \in HttpResponses :
                 LET dl == download_file(resp, MaxBytes) IN
                 /\ downloads' = Append(downloads, [i |-> idx, ok |-> dl.ok,
                                                    data |-> dl.data])
                 /\ IF dl.ok
                    THEN /\ collected_files' = Append(collected_files, file_entry(a, dl))
                         /\ pc' = "close"
                         /\ UNCHANGED idx
                    ELSE /\ idx' = idx + 1
                         /\ pc' = next
                         /\ UNCHANGED collected_files
    /\ UNCHANGED <<dl_call, QUIZ_SECRET, request, response, crashed, pw, browser, context,
                   close_calls, nav, fallback_nav, fallback_attempts, raised_at,
                   anchors, page_captured, gemini_calls, backend, text_out,
                   solution, payload, submit_url, posts>>

\* lines 223-225: context.close(), browser.close(), scope exit, return
CloseAndReturn ==
    /\ pc = "close"
    /\ \E r \in {"ok", "context_close_raises", "browser_close_raises"} :
         CASE r = "ok" ->
                /\ pc' = "rendered"
                /\ context' = "closed"
                /\ browser' = "closed"
                /\ close_calls' = 2
                /\ pw' = "stopped"
                /\ anchors' = <<>>
                /\ idx' = 0
                /\ downloads' = <<>>
                /\ UNCHANGED <<raised_at, collected_files>>
           [] r = "context_close_raises" -> RenderRaise("close", browser, context, 1)
           [] r = "browser_close_raises" -> RenderRaise("close", browser, "closed", 2)
    /\ UNCHANGED <<dl_call, QUIZ_SECRET, request, response, crashed, nav, fallback_nav,
                   fallback_attempts, page_captured, gemini_calls, backend,
                   text_out, solution, payload, submit_url, posts>>

----------------------------------------------------------------------------
(* quiz_endpoint after the render: reasoning call, decision, submission *)

\* line 285-287: the except clause, for an exception out of the render
HandlerCatch ==
    /\ pc = "render_raised"
    /\ pc' = "done"
    /\ response' = Resp(500, "server_error", None, raised_at, NoSolution)
    /\ UNCHANGED <<dl_call, QUIZ_SECRET, request, crashed, pw, browser, context,
                   close_calls, nav, fallback_nav, fallback_attempts, raised_at,
                   anchors, idx, downloads, collected_files, page_captured,
                   gemini_calls, backend, text_out, solution, payload,
                   submit_url, posts>>

\* line 248 with lines 111-161: call_gemini_for_solution(html, text, files)
CallGemini ==
    /\ pc = "rendered"
    /\ gemini_calls' = gemini_calls + 1
    /\ \E b \in {"ok", "raised"} :
       \E resp \in IF b = "ok" THEN GeminiResponses
                   ELSE {CHOOSE g \in GeminiResponses : TRUE} :
         LET o == parse_outcome(b, resp) IN
         /\ backend' = b
         /\ text_out' = o.text
         /\ CASE o.kind = "sentinel" ->
                   /\ solution' = Sentinel(o.detail)
                   /\ pc' = "solved"
                   /\ UNCHANGED <<response, crashed>>
              [] o.kind = "number" ->
                   /\ solution' = NonDictSolution
                   /\ pc' = "solved"
                   /\ UNCHANGED <<response, crashed>>
              [] o.kind = "empty_object" ->
                   /\ solution' = EmptyInstruction
                   /\ pc' = "solved"
                   /\ UNCHANGED <<response, crashed>>
              [] o.kind = "object" ->
                   /\ solution' \in Instructions
                   /\ pc' = "solved"
                   /\ UNCHANGED <<response, crashed>>
              [] o.kind = "propagate" ->
                   \* an exception out of call_gemini_for_solution reaches
                   \* the except clause of quiz_endpoint
                   /\ solution' = NoSolution
                   /\ pc' = "done"
                   /\ response' = Resp(500, "server_error", None, o.detail, NoSolution)
                   /\ UNCHANGED crashed
    /\ UNCHANGED <<dl_call, QUIZ_SECRET, request, pw, browser, context, close_calls, nav,
                   fallback_nav, fallback_attempts, raised_at, anchors, idx,
                   downloads, collected_files, page_captured, payload,
                   submit_url, posts>>

\* lines 249-268: from the solution to a terminal outcome or to the POST
Decide ==
    /\ pc = "solved"
    /\ LET d == submit_decision(solution, request.email, request.secret) IN
       /\ solution' = d.solution
       /\ CASE d.outcome = "model_failed" ->
                 /\ response' = Resp(500, "model_failed", None, None, NoSolution)
                 /\ pc' = "done"
                 /\ UNCHANGED <<payload, submit_url>>
            [] d.outcome = "no_payload_from_model" ->
                 /\ response' = Resp(500, "no_payload_from_model", None, None, d.solution)
                 /\ pc' = "done"
                 /\ UNCHANGED <<payload, submit_url>>
            [] d.outcome = "no_submit_url" ->
                 /\ response' = Resp(200, None, "no_submit_url", None, d.solution)
                 /\ pc' = "done"
                 /\ UNCHANGED <<payload, submit_url>>
            [] d.outcome = "post" ->
                 /\ payload' = attach(d.payload, d.solution)
                 /\ submit_url' = d.solution.submit_url
                 /\ pc' = "post"
                 /\ UNCHANGED response
    /\ UNCHANGED <<dl_call, QUIZ_SECRET, request, crashed, pw, browser, context,
                   close_calls, nav, fallback_nav, fallback_attempts, raised_at,
                   anchors, idx, downloads, collected_files, page_captured,
                   gemini_calls, backend, text_out, posts>>

\* faulty variant: a failed POST is tried once more
PostRetry ==
    /\ pc = "post"
    /\ posts' = Append(posts, [url |-> submit_url, json |-> payload])
    /\ \E r \in {"json", "raises"} :
         IF r = "raises" /\ Len(posts) = 0
         THEN /\ pc' = "post"
              /\ UNCHANGED <<response, solution>>
         ELSE /\ pc' = "done"
              /\ solution' = solution
              /\ response' = [Resp(200, None, "submitted", r, solution) EXCEPT
                                !.submit_url = submit_url]
    /\ UNCHANGED <<dl_call, QUIZ_SECRET, request, crashed, pw, browser, context,
                   close_calls, nav, fallback_nav, fallback_attempts, raised_at,
                   anchors, idx, downloads, collected_files, page_captured,
                   gemini_calls, backend, text_out, payload, submit_url>>

\* lines 269-287: requests.post and the response built from its result
Post ==
    /\ pc = "post"
    /\ posts' = Append(posts, [url |-> submit_url, json |-> payload])
    /\ pc' = "done"
    /\ LET sol == IF solution.payload.t = "dict"
                  THEN [solution EXCEPT !.payload.d = payload]
                  ELSE solution
       IN /\ solution' = sol
          /\ \E r \in {"json", "not_json", "raises"}, sc \in {200, 400} :
               response' =
                 IF r = "raises"
                 THEN Resp(500, "server_error", None, "ConnectionError", NoSolution)
                 ELSE [Resp(200, None, "submitted", r, sol) EXCEPT
                         !.submit_status = sc, !.submit_url = submit_url]
    /\ UNCHANGED <<dl_call, QUIZ_SECRET, request, crashed, pw, browser, context,
                   close_calls, nav, fallback_nav, fallback_attempts, raised_at,
                   anchors, idx, downloads, collected_files, page_captured,
                   gemini_calls, backend, text_out, payload, submit_url>>

----------------------------------------------------------------------------
(* The request pipeline *)

Init ==
    /\ pc = "recv"
    /\ QUIZ_SECRET \in {None, "s"}
    /\ request \in Requests
    /\ response = NoResponse
    /\ crashed = FALSE
    /\ pw = "none"
    /\ browser = "none"
    /\ context = "none"
    /\ close_calls = 0
    /\ nav = "none"
    /\ fallback_nav = "none"
    /\ fallback_attempts = 0
    /\ raised_at = "none"
    /\ anchors = <<>>
    /\ idx = 0
    /\ downloads = <<>>
    /\ collected_files = <<>>
    /\ page_captured = FALSE
    /\ gemini_calls = 0
    /\ backend = "none"
    /\ text_out = NoText
    /\ solution = NoSolution
    /\ payload = EmptyDict
    /\ submit_url = None
    /\ posts = <<>>
    /\ dl_call = NoCall

Next ==
    \/ QuizRequest
    \/ LaunchBrowser
    \/ GotoPrimary
    \/ GotoFallback
    \/ Capture
    \/ ScanAnchor
    \/ CloseAndReturn
    \/ HandlerCatch
    \/ CallGemini
    \/ Decide
    \/ Post

Spec == Init /\ [][Next]_vars

----------------------------------------------------------------------------
(* download_file on its own: every server answer, every cap *)

InitDownload ==
    /\ pc = "download"
    /\ QUIZ_SECRET = None
    /\ request = [k |-> "falsy", email |-> None, secret |-> None, url |-> None]
    /\ response = NoResponse
    /\ crashed = FALSE
    /\ pw = "none"
    /\ browser = "none"
    /\ context = "none"
    /\ close_calls = 0
    /\ nav = "none"
    /\ fallback_nav = "none"
    /\ fallback_attempts = 0
    /\ raised_at = "none"
    /\ anchors = <<>>
    /\ idx = 0
    /\ downloads = <<>>
    /\ collected_files = <<>>
    /\ page_captured = FALSE
    /\ gemini_calls = 0
    /\ backend = "none"
    /\ text_out = NoText
    /\ solution = NoSolution
    /\ payload = EmptyDict
    /\ submit_url = None
    /\ posts = <<>>
    /\ dl_call = NoCall

\* lines 39-49: download_file(url, max_bytes=m) against a server answering resp
DownloadCall ==
    /\ pc = "download"
    /\ \E resp \in HttpResponses, m \in 0..MaxBytes :
         dl_call' = [called |-> TRUE, max_bytes |-> m, resp |-> resp,
                     result |-> download_file(resp, m)]
    /\ pc' = "downloaded"
    /\ UNCHANGED <<QUIZ_SECRET, request, response, crashed, pw, browser, context,
                   close_calls, nav, fallback_nav, fallback_attempts, raised_at,
                   anchors, idx, downloads, collected_files, page_captured,
                   gemini_calls, backend, text_out, solution, payload,
                   submit_url, posts>>

NextDownload == DownloadCall

SpecDownload == InitDownload /\ [][NextDownload]_vars

----------------------------------------------------------------------------
(* Properties *)

RenderOver == pc \in {"rendered", "render_raised", "solved", "post", "done"}
Solved == pc \in {"solved", "post", "done"} /\ gemini_calls = 1

\* C1: every submission POST carries the caller's email and secret, whatever
\* the model's payload held for those keys; when the model gave no payload
\* the body is exactly {email, secret, answer}, plus attachment_base64 only
\* if the instruction carried one.
C1_CallerIdentityInBody ==
    \A i \in 1..Len(posts) :
      LET body == posts[i].json IN
      /\ body.email = request.email
      /\ body.secret = request.secret
      /\ solution.payload.t = "null" =>
           /\ solution.answer # None
           /\ body = [EmptyDict EXCEPT
                        !.email = request.email,
                        !.secret = request.secret,
                        !.answer = solution.answer,
                        !.attachment_base64 =
                            IF Truthy(solution.attachment_base64)
                            THEN solution.attachment_base64 ELSE Absent]

\* a POST went out for an instruction whose payload named another identity
C1_Witness ==
    /\ Len(posts) = 1
    /\ posts[1].json.extra = "x"
    /\ posts[1].json.email = "a@b.com"
    /\ posts[1].json.secret = "s"

\* C2 as stated: an instruction decoded from the model's reply that has no
\* submit_url always ends in no_submit_url / 200 with no POST, whatever its
\* payload and answer are.
C2_Original ==
    (pc = "done" /\ Solved /\ solution.t = "dict" /\ solution.reason = None
       /\ ~Truthy(solution.submit_url)) =>
        /\ response.result = "no_submit_url"
        /\ response.status = 200
        /\ response.solution = solution
        /\ posts = <<>>

\* C2 amended: with a missing submit_url no POST is made; the outcome is
\* no_submit_url / 200 echoing the instruction when the payload is an object,
\* and no_payload_from_model / 500 when it is not.
C2_NoSubmitUrl ==
    (Solved /\ solution.t = "dict" /\ ~Truthy(solution.submit_url)) =>
        /\ posts = <<>>
        /\ pc # "post"
        /\ pc = "done" =>
             /\ response.solution = solution
             /\ IF solution.payload.t = "dict"
                THEN response.result = "no_submit_url" /\ response.status = 200
                     /\ response.error = None
                ELSE response.error = "no_payload_from_model" /\ response.status = 500
                     /\ response.result = None

C2_Witness ==
    /\ pc = "done"
    /\ response.result = "no_submit_url"
    /\ solution.answer = "blue"
    /\ ~Truthy(solution.submit_url)

\* the backend call succeeded and the reply does not decode: neither the
\* brace span nor the raw text is JSON
Undecodable ==
    /\ backend = "ok"
    /\ text_out.t = "str"
    /\ json_loads(json_text(text_out.v)) = "error"
    /\ json_loads(text_out.v) = "error"

C4_SentinelOnFailure ==
    (gemini_calls = 1 /\ (backend = "raised" \/ text_out.t \in {"raised", "nonstr"})) =>
        /\ solution.t = "dict"
        /\ solution.answer = None
        /\ solution.submit_url = None
        /\ solution.payload = NullPayload
        /\ solution.reason = "model_error"
        /\ solution.model_exception =
             IF backend = "raised" THEN "backend_error"
             ELSE IF text_out.t = "raised" THEN "text_error" ELSE "AttributeError"
        /\ ~crashed
        /\ pc \in {"solved", "done"}
        /\ pc = "done" =>
             /\ response.status = 500
             /\ response.error = "no_payload_from_model"
             /\ response.solution = solution

C4_Witness ==
    /\ pc = "done"
    /\ backend = "ok"
    /\ text_out.t = "raised"
    /\ response.solution.reason = "model_error"

C6_BrowserClosedOnExit ==
    RenderOver => (browser # "open" /\ context # "open" /\ pw # "running")

\* content capture raised with browser and context open
C6_Witness ==
    /\ pc = "render_raised"
    /\ raised_at = "capture"
    /\ browser = "closed"
    /\ context = "closed"
    /\ close_calls = 0

\* C7: a timeout of the primary navigation is followed by exactly one
\* fallback navigation, whose failure is not raised: the function goes on to
\* capture the page; without a primary timeout there is no fallback.
C7_FallbackOnce ==
    /\ fallback_attempts <= 1
    /\ (nav = "timeout" /\ pc # "fallback") =>
         (fallback_attempts = 1 /\ fallback_nav # "none")
    /\ nav # "timeout" => (fallback_attempts = 0 /\ fallback_nav = "none")
    /\ (nav = "timeout" /\ pc = "render_raised") =>
         (raised_at \in {"capture", "close"} /\ fallback_attempts = 1)
    /\ (nav = "timeout" /\ pc \in {"scan", "close", "rendered"}) => page_captured
    /\ raised_at # "fallback"

C7_Witness ==
    /\ nav = "timeout"
    /\ fallback_nav = "error"
    /\ fallback_attempts = 1
    /\ pc = "rendered"
    /\ page_captured

\* C8 as stated: every request ends in a structured JSON response, never in
\* an unhandled exception.
C8_AlwaysStructured ==
    /\ ~crashed
    /\ pc = "done" => response.status \in {200, 400, 403, 500}

Candidates == {i \in 1..Len(anchors) : anchors[i].kind = "cand"}
Tried == {downloads[k].i : k \in 1..Len(downloads)}

\* C9: the loop collects at most one resource: the first candidate link, in
\* document order, whose download succeeded; every candidate before it was
\* tried and failed, no link after it is tried, skipped links never abort the
\* scan; with no candidate link nothing is collected and the reasoning call
\* still follows.
C9_FirstSuccessfulCandidate ==
    /\ Len(collected_files) <= 1
    /\ raised_at # "scan"
    /\ \A k \in 1..Len(downloads) :
         /\ downloads[k].i \in Candidates
         /\ k < Len(downloads) => (~downloads[k].ok /\ downloads[k].i < downloads[k + 1].i)
    /\ pc \in {"scan", "close"} =>
         IF Len(collected_files) = 1
         THEN /\ Len(downloads) >= 1
              /\ LET last == downloads[Len(downloads)] IN
                 /\ last.ok
                 /\ collected_files[1].filename = anchors[last.i].ext
                 /\ collected_files[1].bytes = last.data
                 /\ collected_files[1].bytes <= MaxBytes
                 /\ Tried = {i \in Candidates : i <= last.i}
                 /\ pc = "close"
         ELSE /\ \A k \in 1..Len(downloads) : ~downloads[k].ok
              /\ Tried = {i \in Candidates : i < idx}
              /\ pc = "close" => Tried = Candidates
    /\ (pc = "rendered" /\ collected_files = <<>>) => ENABLED CallGemini

\* first candidate failed, second collected, third never requested
C9_Witness ==
    /\ pc = "close"
    /\ Len(anchors) = 3
    /\ Candidates = {1, 2, 3}
    /\ Len(downloads) = 2
    /\ ~downloads[1].ok
    /\ downloads[2].ok
    /\ Len(collected_files) = 1

Rank(p) ==
    CASE p = "recv" -> 0
      [] p = "launch" -> 1
      [] p = "goto" -> 2
      [] p = "fallback" -> 3
      [] p = "capture" -> 4
      [] p = "scan" -> 5
      [] p = "close" -> 6
      [] p \in {"rendered", "render_raised"} -> 7
      [] p = "solved" -> 8
      [] p = "post" -> 9
      [] OTHER -> 10

\* C10: the stages of one request run strictly forward: the render is over
\* before the single reasoning call, there is at most one reasoning call and
\* at most one POST, the POST follows an instruction with a submit_url and a
\* payload object, and nothing happens after a terminal outcome.
C10_StagesForward ==
    /\ [](/\ gemini_calls <= 1
          /\ Len(posts) <= 1
          /\ gemini_calls = 1 =>
               (pc \in {"solved", "post", "done"} /\ pw = "stopped" /\ page_captured)
          /\ pc \in {"solved", "post"} => gemini_calls = 1
          /\ (pc = "post" \/ Len(posts) = 1) =>
               /\ gemini_calls = 1
               /\ solution.t = "dict"
               /\ Truthy(solution.submit_url)
               /\ submit_url = solution.submit_url
               /\ payload.email # Absent
          /\ Len(posts) = 1 =>
               (pc = "done" /\ posts[1] = [url |-> submit_url, json |-> payload])
          /\ pc = "done" => ~ENABLED Next)
    /\ [][\/ Rank(pc') > Rank(pc)
          \/ (pc = "scan" /\ pc' = "scan" /\ idx' = idx + 1)]_vars

C10_Witness ==
    /\ pc = "done"
    /\ Len(posts) = 1
    /\ gemini_calls = 1
    /\ response.result = "submitted"

====
